---- MODULE Spec2Model ----
(***************************************************************************)
(* Model of check_links.py: the link extractor (extract_links), the link   *)
(* prober (check_link, on top of the retrying session of create_session)   *)
(* and the driver (main).                                                  *)
(*                                                                         *)
(* A line of README.md is a sequence of tokens.  The token Scheme stands   *)
(* for the literal text "http://" (the text "https://" is treated the same *)
(* way by both regular expressions and by startswith); every other token   *)
(* is one character.  A line is held without its trailing newline: the     *)
(* newline is whitespace, so it ends a bare URL exactly as the end of the  *)
(* line does, and no markdown link can span it.                            *)
(***************************************************************************)
EXTENDS Integers, Sequences, FiniteSets, TLC

VARIABLES doc, pc, links, origin, idx, valid_links, broken_links, results,
          exit_code, log, result, raised, head_resp, get_resp, attempts,
          last_answer, summary

vars == <<doc, pc, links, origin, idx, valid_links, broken_links, results,
          exit_code, log, result, raised, head_resp, get_resp, attempts,
          last_answer, summary>>

(***************************************************************************)
(* Bounds of the model.                                                    *)
(***************************************************************************)
MaxLines == 2
MaxLead == 1
MaxChunks == 4

(***************************************************************************)
(* Tokens.                                                                 *)
(***************************************************************************)
Scheme == "http://"

Min(S) == CHOOSE x \in S : \A y \in S : x <= y

\* \s of the bare-URL pattern (the only whitespace token of the model).
IsSpace(c) == c = " "

\* Index of the first occurrence of c in line at or after from, 0 if none.
FirstIndex(line, from, c) ==
    LET S == {j \in from..Len(line) : line[j] = c}
    IN  IF S = {} THEN 0 ELSE Min(S)

(***************************************************************************)
(* re.findall(r'\[([^\]]+)\]\(([^\)]+)\)', line), line 44.                 *)
(* MarkdownEnd(line, i) is the index of the closing parenthesis of the     *)
(* match that starts at i, 0 when the pattern does not match at i.  The    *)
(* text group cannot hold "]" and must be followed by "]", so it runs to   *)
(* the first "]" after i and must be non-empty; likewise the target.       *)
(***************************************************************************)
MarkdownEnd(line, i) ==
    IF line[i] # "[" THEN 0
    ELSE LET j == FirstIndex(line, i + 1, "]")
         IN  IF j = 0 \/ j = i + 1 THEN 0
             ELSE IF j + 1 > Len(line) \/ line[j + 1] # "(" THEN 0
             ELSE LET k == FirstIndex(line, j + 2, ")")
                  IN  IF k = 0 \/ k = j + 2 THEN 0 ELSE k

\* The target group of the match starting at i and ending at k.
MarkdownTarget(line, i, k) ==
    LET j == FirstIndex(line, i + 1, "]")
    IN  [start |-> i, tstart |-> j + 2, url |-> SubSeq(line, j + 2, k - 1)]

\* findall: leftmost matches, scanning on after the end of each match.
RECURSIVE MarkdownScan(_, _)
MarkdownScan(line, i) ==
    IF i > Len(line) THEN <<>>
    ELSE LET k == MarkdownEnd(line, i)
         IN  IF k = 0 THEN MarkdownScan(line, i + 1)
             ELSE <<MarkdownTarget(line, i, k)>> \o MarkdownScan(line, k + 1)

markdown_links(line) == MarkdownScan(line, 1)

\* url.startswith(('http://', 'https://')), line 46.
StartsWithScheme(url) == Len(url) >= 1 /\ url[1] = Scheme

(***************************************************************************)
(* re.findall(r'(?<!\()https?://[^\s\)]+', line), line 50.                 *)
(***************************************************************************)
UrlCharNoParen(c) == ~IsSpace(c)

\* [^\s\)] : neither whitespace nor a closing parenthesis.
UrlChar(c) == ~IsSpace(c) /\ c # ")"

\* Last index of the run of URL characters that starts at from (from - 1
\* when the run is empty).
RECURSIVE RunEnd(_, _)
RunEnd(line, from) ==
    IF from > Len(line) \/ ~UrlChar(line[from]) THEN from - 1
    ELSE RunEnd(line, from + 1)

\* Index of the last token of the match starting at i, 0 when no match.
BareEnd(line, i) ==
    IF line[i] # Scheme THEN 0
    ELSE IF i > 1 /\ line[i - 1] = "(" THEN 0
    ELSE LET e == RunEnd(line, i + 1)
         IN  IF e < i + 1 THEN 0 ELSE e

RECURSIVE BareScan(_, _)
BareScan(line, i) ==
    IF i > Len(line) THEN <<>>
    ELSE LET e == BareEnd(line, i)
         IN  IF e = 0 THEN BareScan(line, i + 1)
             ELSE <<[start |-> i, url |-> SubSeq(line, i, e)]>>
                  \o BareScan(line, e + 1)

bare_urls(line) == BareScan(line, 1)

(***************************************************************************)
(* extract_links, lines 37-54.  Each entry carries, beside the pair        *)
(* (line_num, url) the program keeps, where it came from: the pattern that *)
(* matched and the index in the line where the match and the URL start.    *)
(***************************************************************************)
\* enumerate(f, start=1)
FirstLineNum == 1

IsHttpTarget(m) == StartsWithScheme(m.url)

MdEntry(line_num, m) ==
    [line_num |-> line_num, url |-> m.url, kind |-> "markdown",
     start |-> m.start, ustart |-> m.tstart]

BareEntry(line_num, m) ==
    [line_num |-> line_num, url |-> m.url, kind |-> "bare",
     start |-> m.start, ustart |-> m.start]

MdEntries(line_num, line) ==
    LET ms == SelectSeq(markdown_links(line), IsHttpTarget)
    IN  [n \in 1..Len(ms) |-> MdEntry(line_num, ms[n])]

BareEntries(line_num, line) ==
    LET ms == bare_urls(line)
    IN  [n \in 1..Len(ms) |-> BareEntry(line_num, ms[n])]

\* The body of the loop over the lines, lines 43-52.
LineLinksBareFirst(line_num, line) ==
    BareEntries(line_num, line) \o MdEntries(line_num, line)

LineLinks(line_num, line) ==
    MdEntries(line_num, line) \o BareEntries(line_num, line)

RECURSIVE ExtractFrom(_, _)
ExtractFrom(d, n) ==
    IF n > Len(d) THEN <<>>
    ELSE LineLinks(FirstLineNum + n - 1, d[n]) \o ExtractFrom(d, n + 1)

extract_entries(d) == ExtractFrom(d, 1)

\* What the program returns: the (line_num, url) pairs.
extract_links(d) ==
    LET es == extract_entries(d)
    IN  [n \in 1..Len(es) |-> <<es[n].line_num, es[n].url>>]

(***************************************************************************)
(* create_session, lines 17-34: every request of the session goes through  *)
(* an HTTPAdapter whose Retry re-sends a request answered with a status of *)
(* status_forcelist.  The Retry is built with its defaults otherwise, so   *)
(* raise_on_status is on: when a response of the force list arrives and no *)
(* retry is left, the adapter raises (requests reports it as RetryError)   *)
(* instead of returning that response.                                     *)
(***************************************************************************)
total == 3

status_forcelist == {429, 500, 502, 503, 504}

\* What the session does with a response of status s that arrives after
\* `used` retries of the same request.
OnStatus(s, used) ==
    IF s \in status_forcelist
    THEN IF used < total THEN "retry" ELSE "raise"
    ELSE "return"

(***************************************************************************)
(* The answers of the network to one sending of a request: a response with *)
(* a status, or a failure, named by the exception session.head/session.get *)
(* raises for it.  Bases(e) is the exception's class with its base classes *)
(* (requests.exceptions; UnicodeError stands for an exception that is not  *)
(* a RequestException).                                                    *)
(***************************************************************************)
Statuses == {200, 399, 400, 404, 503}

Failures == {"ConnectTimeout", "ReadTimeout", "ConnectionError",
             "TooManyRedirects", "InvalidURL", "UnicodeError"}

Bases(e) ==
    CASE e = "ConnectTimeout" ->
            {"ConnectTimeout", "ConnectionError", "Timeout",
             "RequestException", "Exception"}
      [] e = "ReadTimeout" ->
            {"ReadTimeout", "Timeout", "RequestException", "Exception"}
      [] e = "ConnectionError" ->
            {"ConnectionError", "RequestException", "Exception"}
      [] e = "TooManyRedirects" ->
            {"TooManyRedirects", "RequestException", "Exception"}
      [] e = "RetryError" ->
            {"RetryError", "RequestException", "Exception"}
      [] e = "InvalidURL" ->
            {"InvalidURL", "RequestException", "ValueError", "Exception"}
      [] OTHER -> {e, "Exception"}

(***************************************************************************)
(* check_link, lines 57-83.  A message is a pair <<text, detail>>: "HTTP"  *)
(* with the status, "Request Error"/"Unknown Error" with str(e) (the name  *)
(* of the exception stands for it), and an empty detail otherwise.         *)
(***************************************************************************)
NoResult == [is_valid |-> FALSE, message |-> <<"", "">>, status_code |-> 0]

\* Line 66.
NeedsGet(status) == status >= 400

\* Lines 69-72.
ClassifyOffByOne(status) ==
    IF status <= 400
    THEN [is_valid |-> TRUE, message |-> <<"OK", "">>, status_code |-> status]
    ELSE [is_valid |-> FALSE, message |-> <<"HTTP", ToString(status)>>,
          status_code |-> status]

Classify(status) ==
    IF status < 400
    THEN [is_valid |-> TRUE, message |-> <<"OK", "">>, status_code |-> status]
    ELSE [is_valid |-> FALSE, message |-> <<"HTTP", ToString(status)>>,
          status_code |-> status]

Broken(text, detail) ==
    [is_valid |-> FALSE, message |-> <<text, detail>>, status_code |-> 0]

\* Lines 74-83: the first except clause whose class the exception is an
\* instance of; "uncaught" when there is none.
ExceptClauseNoCatchAll(e) ==
    IF "Timeout" \in Bases(e) THEN "Timeout"
    ELSE IF "ConnectionError" \in Bases(e) THEN "ConnectionError"
    ELSE IF "TooManyRedirects" \in Bases(e) THEN "TooManyRedirects"
    ELSE IF "RequestException" \in Bases(e) THEN "RequestException"
    ELSE "uncaught"

ExceptClause(e) ==
    IF "Timeout" \in Bases(e) THEN "Timeout"
    ELSE IF "ConnectionError" \in Bases(e) THEN "ConnectionError"
    ELSE IF "TooManyRedirects" \in Bases(e) THEN "TooManyRedirects"
    ELSE IF "RequestException" \in Bases(e) THEN "RequestException"
    ELSE IF "Exception" \in Bases(e) THEN "Exception"
    ELSE "uncaught"

Handled(e) ==
    CASE ExceptClause(e) = "Timeout" -> Broken("Timeout", "")
      [] ExceptClause(e) = "ConnectionError" -> Broken("Connection Error", "")
      [] ExceptClause(e) = "TooManyRedirects" -> Broken("Too Many Redirects", "")
      [] ExceptClause(e) = "RequestException" -> Broken("Request Error", e)
      [] ExceptClause(e) = "Exception" -> Broken("Unknown Error", e)
      [] OTHER -> NoResult

(***************************************************************************)
(* main, lines 86-141.                                                     *)
(***************************************************************************)
\* Line 93: if not links.
NoLinksExitNever(ls) == FALSE

NoLinksExit(ls) == ls = <<>>

\* Line 117: if idx < len(links).
ShouldSleepAfterEvery(i, n) == i <= n

ShouldSleep(i, n) == i < n

\* Lines 130-141: the exit code.
ExitCodeSwapped(broken) == IF broken # <<>> THEN 0 ELSE 1

ExitCode(broken) == IF broken # <<>> THEN 1 ELSE 0

\* Lines 109-114: the two result lists after the probe of link l returned r.
TallyDropBroken(valid, broken, l, r) ==
    IF r.is_valid
    THEN <<Append(valid, <<l[1], l[2], r.status_code>>), broken>>
    ELSE <<valid, broken>>

Tally(valid, broken, l, r) ==
    IF r.is_valid
    THEN <<Append(valid, <<l[1], l[2], r.status_code>>), broken>>
    ELSE <<valid, Append(broken, <<l[1], l[2], r.message>>)>>

\* Where main goes after it has taken the result r of the probe of link i
\* of n, lines 116-120: to the pause, or to the head of the loop.
AfterProbeStopOnBroken(i, n, r) ==
    IF ~r.is_valid THEN "summary"
    ELSE IF ShouldSleep(i, n) THEN "sleep" ELSE "loop"

AfterProbe(i, n, r) == IF ShouldSleep(i, n) THEN "sleep" ELSE "loop"

Event(e, i) == [ev |-> e, i |-> i]

NoSummary == [valid |-> 0, broken |-> 0, total |-> 0]

(***************************************************************************)
(* The documents.                                                          *)
(***************************************************************************)
\* All sequences over S of length at most n.
SeqsUpTo(S, n) == UNION {[1..m -> S] : m \in 0..n}

\* Lines of the documents the driver is run on: no link, a bare URL, a
\* markdown link.
SampleLines == { <<"a">>, <<Scheme, "a">>,
                 <<"[", "a", "]", "(", Scheme, "b", ")">> }

DriverDocs == SeqsUpTo(SampleLines, MaxLines)

\* The pieces the lines of the extractor's documents are made of: every
\* single token, and the opening of a markdown link.
Chunks == { <<"[">>, <<"]">>, <<"(">>, <<")">>, <<" ">>, <<"a">>, <<Scheme>>,
            <<"[", "a", "]", "(">> }

RECURSIVE Flatten(_)
Flatten(ss) == IF ss = <<>> THEN <<>> ELSE Head(ss) \o Flatten(Tail(ss))

ChunkLines == {Flatten(cs) : cs \in SeqsUpTo(Chunks, MaxChunks)}

\* Lines that come before the line under study: one without a link, one
\* with a bare URL.
LeadLines == { <<"a">>, <<Scheme, "a">> }

ExtractDocs == {lead \o <<line>> : lead \in SeqsUpTo(LeadLines, MaxLead),
                                   line \in ChunkLines}

InitWith(docs) ==
    /\ doc \in docs
    /\ pc = "start"
    /\ links = <<>>
    /\ origin = <<>>
    /\ idx = 0
    /\ valid_links = <<>>
    /\ broken_links = <<>>
    /\ results = <<>>
    /\ exit_code = <<>>
    /\ log = <<>>
    /\ result = NoResult
    /\ raised = "none"
    /\ head_resp = 0
    /\ get_resp = 0
    /\ attempts = 0
    /\ last_answer = 0
    /\ summary = NoSummary

Init == InitWith(DriverDocs)

InitExtract == InitWith(ExtractDocs)

probe_vars == <<result, raised, head_resp, get_resp, attempts, last_answer>>

\* Lines 88-102: extract, leave at once when there is no link, else create
\* the session and the two lists and go to the loop.
Extract ==
    /\ pc = "start"
    /\ origin' = extract_entries(doc)
    /\ links' = extract_links(doc)
    /\ IF NoLinksExit(links')
       THEN /\ pc' = "done"
            /\ exit_code' = <<1>>
            /\ log' = Append(log, Event("no_links", 0))
       ELSE /\ pc' = "loop"
            /\ UNCHANGED <<exit_code, log>>
    /\ UNCHANGED <<doc, idx, valid_links, broken_links, results, summary>>
    /\ UNCHANGED probe_vars

\* Lines 104-107: the head of the for loop: call check_link for the next
\* link (which sends the HEAD request), or leave the loop after the last.
Loop ==
    /\ pc = "loop"
    /\ IF idx < Len(links)
       THEN /\ idx' = idx + 1
            /\ log' = Append(log, Event("call", idx + 1))
            /\ pc' = "head"
       ELSE /\ pc' = "summary"
            /\ UNCHANGED <<idx, log>>
    /\ result' = NoResult
    /\ raised' = "none"
    /\ head_resp' = 0
    /\ get_resp' = 0
    /\ attempts' = 0
    /\ last_answer' = 0
    /\ UNCHANGED <<doc, links, origin, valid_links, broken_links, results,
                   exit_code, summary>>

\* check_link returns r (raised names the exception it caught, if any).
Return(r, e) ==
    /\ result' = r
    /\ raised' = e
    /\ results' = Append(results, r)
    /\ log' = Append(log, Event("ret", idx))
    /\ pc' = "record"
    /\ attempts' = 0

\* session.head / session.get raised e inside check_link's try.
Raise(e) ==
    IF ExceptClause(e) = "uncaught"
    THEN /\ pc' = "crashed"
         /\ raised' = e
         /\ UNCHANGED <<result, results, log, attempts>>
    ELSE Return(Handled(e), e)

\* Line 63: one sending of the HEAD request is answered with status s.
HeadResponds ==
    /\ pc = "head"
    /\ \E s \in Statuses :
         /\ last_answer' = s
         /\ CASE OnStatus(s, attempts) = "retry" ->
                   /\ attempts' = attempts + 1
                   /\ UNCHANGED <<pc, result, raised, results, log, head_resp>>
              [] OnStatus(s, attempts) = "raise" ->
                   /\ Raise("RetryError")
                   /\ UNCHANGED head_resp
              [] OTHER ->
                   /\ head_resp' = s
                   /\ IF NeedsGet(s)
                      THEN /\ pc' = "get"
                           /\ attempts' = 0
                           /\ log' = Append(log, Event("get", idx))
                           /\ UNCHANGED <<result, raised, results>>
                      ELSE Return(Classify(s), "none")
    /\ UNCHANGED <<doc, links, origin, idx, valid_links, broken_links,
                   exit_code, get_resp, summary>>

\* Line 63: the HEAD request fails with exception e.
HeadFails ==
    /\ pc = "head"
    /\ \E e \in Failures : Raise(e)
    /\ last_answer' = 0
    /\ UNCHANGED <<doc, links, origin, idx, valid_links, broken_links,
                   exit_code, head_resp, get_resp, summary>>

\* Line 67: one sending of the GET request is answered with status s.
GetResponds ==
    /\ pc = "get"
    /\ \E s \in Statuses :
         /\ last_answer' = s
         /\ CASE OnStatus(s, attempts) = "retry" ->
                   /\ attempts' = attempts + 1
                   /\ UNCHANGED <<pc, result, raised, results, log, get_resp>>
              [] OnStatus(s, attempts) = "raise" ->
                   /\ Raise("RetryError")
                   /\ UNCHANGED get_resp
              [] OTHER ->
                   /\ get_resp' = s
                   /\ Return(Classify(s), "none")
    /\ UNCHANGED <<doc, links, origin, idx, valid_links, broken_links,
                   exit_code, head_resp, summary>>

\* Line 67: the GET request fails with exception e.
GetFails ==
    /\ pc = "get"
    /\ \E e \in Failures : Raise(e)
    /\ last_answer' = 0
    /\ UNCHANGED <<doc, links, origin, idx, valid_links, broken_links,
                   exit_code, head_resp, get_resp, summary>>

\* Lines 107-117: main takes check_link's result into one of its lists.
Record ==
    /\ pc = "record"
    /\ LET t == Tally(valid_links, broken_links, links[idx], result)
       IN  /\ valid_links' = t[1]
           /\ broken_links' = t[2]
    /\ pc' = AfterProbe(idx, Len(links), result)
    /\ UNCHANGED <<doc, links, origin, idx, results, exit_code, log, summary>>
    /\ UNCHANGED probe_vars

\* Line 118: time.sleep(0.5).
Sleep ==
    /\ pc = "sleep"
    /\ log' = Append(log, Event("sleep", idx))
    /\ pc' = "loop"
    /\ UNCHANGED <<doc, links, origin, idx, valid_links, broken_links,
                   results, exit_code, summary>>
    /\ UNCHANGED probe_vars

\* Lines 122-141: the summary and the exit.
Summary ==
    /\ pc = "summary"
    /\ summary' = [valid |-> Len(valid_links), broken |-> Len(broken_links),
                   total |-> Len(links)]
    /\ log' = Append(log, Event("summary", 0))
    /\ exit_code' = <<ExitCode(broken_links)>>
    /\ pc' = "done"
    /\ UNCHANGED <<doc, links, origin, idx, valid_links, broken_links, results>>
    /\ UNCHANGED probe_vars

Next ==
    \/ Extract
    \/ Loop
    \/ HeadResponds
    \/ HeadFails
    \/ GetResponds
    \/ GetFails
    \/ Record
    \/ Sleep
    \/ Summary

Spec == Init /\ [][Next]_vars

\* The extractor alone, on the larger set of documents.
SpecExtract == InitExtract /\ [][Extract]_vars

(***************************************************************************)
(* Properties.                                                             *)
(***************************************************************************)
IsProbeEvent(e) == e.ev \in {"call", "ret"}

IsPacedEvent(e) == e.ev \in {"call", "ret", "sleep"}

IsSleepEvent(e) == e.ev = "sleep"

IsPrefixOf(s, t) == Len(s) <= Len(t) /\ s = SubSeq(t, 1, Len(s))

\* call 1, ret 1, call 2, ret 2, ..., call n, ret n
ProbesInOrder(n) ==
    [j \in 1..(2 * n) |-> IF j % 2 = 1 THEN Event("call", (j + 1) \div 2)
                          ELSE Event("ret", j \div 2)]

\* call 1, ret 1, sleep 1, call 2, ret 2, sleep 2, ..., call n, ret n
PacedProbes(n) ==
    [j \in 1..(3 * n - 1) |->
        IF j % 3 = 1 THEN Event("call", (j + 2) \div 3)
        ELSE IF j % 3 = 2 THEN Event("ret", (j + 1) \div 3)
        ELSE Event("sleep", j \div 3)]

AllValid ==
    /\ Len(results) = Len(links)
    /\ \A i \in 1..Len(results) : results[i].is_valid

\* C1: when main has exited, the exit code is 0 or 1, and it is 0 exactly
\* when at least one link was extracted and every probe returned Valid.
C1_ExitCode ==
    pc = "done" =>
        /\ exit_code \in {<<0>>, <<1>>}
        /\ (exit_code = <<0>> <=> (Len(links) >= 1 /\ AllValid))

C1_Witness ==
    /\ pc = "done"
    /\ exit_code = <<0>>
    /\ Len(links) = 2
    /\ AllValid

\* C2: when extract_links returned no link, main has exited with code 1 and
\* nothing else happened: no check_link call, no request, no pause, no
\* summary.
C2_NoLinksNoProbe ==
    (pc # "start" /\ links = <<>>) =>
        /\ pc = "done"
        /\ exit_code = <<1>>
        /\ log = <<Event("no_links", 0)>>
        /\ results = <<>>
        /\ summary = NoSummary
        /\ idx = 0

C2_Witness ==
    /\ pc = "done"
    /\ links = <<>>
    /\ Len(doc) = 2
    /\ exit_code = <<1>>

\* The reason the specification gives for each class of failure.
ExpectedBroken(e) ==
    CASE e \in {"ConnectTimeout", "ReadTimeout"} -> Broken("Timeout", "")
      [] e = "ConnectionError" -> Broken("Connection Error", "")
      [] e = "TooManyRedirects" -> Broken("Too Many Redirects", "")
      [] e \in {"RetryError", "InvalidURL"} -> Broken("Request Error", e)
      [] OTHER -> Broken("Unknown Error", e)

\* C3: no failure of the HEAD or of the GET request leaves check_link: it
\* returns a Broken result with status code 0 and the reason of the
\* failure's class.
C3_NeverPropagates ==
    /\ pc # "crashed"
    /\ (pc = "record" /\ raised # "none") =>
          /\ result = ExpectedBroken(raised)
          /\ ~result.is_valid
          /\ result.status_code = 0
          /\ results[idx] = result

\* The fallback GET of the second link fails to connect.
C3_Witness ==
    /\ pc = "record"
    /\ idx = 2
    /\ raised = "ConnectionError"
    /\ head_resp >= 400
    /\ result = Broken("Connection Error", "")

GetCalls(i) == Len(SelectSeq(log, LAMBDA e : e.ev = "get" /\ e.i = i))

C5_EveryLinkProbed ==
    /\ pc # "crashed"
    /\ IsPrefixOf(SelectSeq(log, IsProbeEvent), ProbesInOrder(Len(links)))
    /\ (pc \in {"summary", "done"} /\ Len(links) >= 1) =>
          SelectSeq(log, IsProbeEvent) = ProbesInOrder(Len(links))
    /\ \A j \in 1..Len(log) :
          log[j].ev = "summary" => (j = Len(log) /\ pc = "done")

C5_Witness ==
    /\ pc = "done"
    /\ Len(links) = 2
    /\ ~results[1].is_valid
    /\ results[1].message = <<"Timeout", "">>
    /\ results[2].is_valid
    /\ log[Len(log)] = Event("summary", 0)

\* C6: the pauses sit between the probes: one after each probe but the last,
\* whatever the probe returned, and the next probe starts after it.
C6_PauseBetweenProbes ==
    /\ Len(links) >= 1 =>
          IsPrefixOf(SelectSeq(log, IsPacedEvent), PacedProbes(Len(links)))
    /\ (pc \in {"summary", "done"} /\ Len(links) >= 1) =>
          /\ SelectSeq(log, IsPacedEvent) = PacedProbes(Len(links))
          /\ Len(SelectSeq(log, IsSleepEvent)) = Len(links) - 1

C6_Witness ==
    /\ pc = "done"
    /\ Len(links) = 2
    /\ ~results[1].is_valid
    /\ Len(SelectSeq(log, IsSleepEvent)) = 1

\* The entries the first k probes put in the list of the valid links, and
\* in the list of the broken ones.
RECURSIVE ValidOf(_)
ValidOf(k) ==
    IF k = 0 THEN <<>>
    ELSE IF results[k].is_valid
         THEN Append(ValidOf(k - 1),
                     <<links[k][1], links[k][2], results[k].status_code>>)
         ELSE ValidOf(k - 1)

RECURSIVE BrokenOf(_)
BrokenOf(k) ==
    IF k = 0 THEN <<>>
    ELSE IF ~results[k].is_valid
         THEN Append(BrokenOf(k - 1),
                     <<links[k][1], links[k][2], results[k].message>>)
         ELSE BrokenOf(k - 1)

\* The probes main has taken the result of.
Taken == IF pc \in {"head", "get", "record"} THEN idx - 1 ELSE idx

\* C9: after k probes the two lists hold the k probed links, each in the
\* list of its verdict and in extraction order, and the counts of the
\* summary add up to the number of links.
C9_Partition ==
    /\ Len(valid_links) + Len(broken_links) = Taken
    /\ Len(results) = (IF pc = "record" THEN Taken + 1 ELSE Taken)
    /\ valid_links = ValidOf(Taken)
    /\ broken_links = BrokenOf(Taken)
    /\ (pc = "done" /\ links # <<>>) =>
          /\ summary.valid + summary.broken = summary.total
          /\ summary.total = Len(links)
          /\ summary.valid = Len(valid_links)
          /\ summary.broken = Len(broken_links)
          /\ Taken = Len(links)

\* Two links, the first timing out: 1 valid, 1 broken, total 2, exit 1.
C9_Witness ==
    /\ pc = "done"
    /\ summary = [valid |-> 1, broken |-> 1, total |-> 2]
    /\ results[1].message = <<"Timeout", "">>
    /\ exit_code = <<1>>

\* C10: a URL that answers a retried request with a status of the force
\* list until the retries end is reported Broken "HTTP <code>" with that
\* code.
C10_TransientReportedByStatus ==
    (pc = "record" /\ last_answer \in status_forcelist) =>
        result = [is_valid |-> FALSE,
                  message |-> <<"HTTP", ToString(last_answer)>>,
                  status_code |-> last_answer]

(***************************************************************************)
(* Properties of the extractor (SpecExtract).                              *)
(***************************************************************************)
\* Every entry is the text of its line at the place it was matched.
EntriesAreText ==
    /\ Len(links) = Len(origin)
    /\ \A i \in 1..Len(origin) :
          /\ links[i] = <<origin[i].line_num, origin[i].url>>
          /\ origin[i].line_num \in 1..Len(doc)
          /\ origin[i].url =
                SubSeq(doc[origin[i].line_num], origin[i].ustart,
                       origin[i].ustart + Len(origin[i].url) - 1)

\* C7 as stated: the links come by line, and within a line by the place
\* where the link starts (for a markdown link, its opening bracket).
C7_DocumentOrder ==
    \A i, j \in 1..Len(origin) :
        i < j =>
            \/ origin[i].line_num < origin[j].line_num
            \/ /\ origin[i].line_num = origin[j].line_num
               /\ origin[i].start < origin[j].start

\* C7, amended: the links come by line; within a line the targets of the
\* markdown links come first, left to right, then the bare URLs, left to
\* right.
C7_LineThenKindOrder ==
    pc # "start" =>
        /\ EntriesAreText
        /\ \A i, j \in 1..Len(origin) :
              i < j =>
                  \/ origin[i].line_num < origin[j].line_num
                  \/ /\ origin[i].line_num = origin[j].line_num
                     /\ \/ /\ origin[i].kind = "markdown"
                           /\ origin[j].kind = "bare"
                        \/ /\ origin[i].kind = origin[j].kind
                           /\ origin[i].start < origin[j].start

\* A second line whose bare URL stands before its markdown link, after a
\* first line with a link.
C7_Witness ==
    /\ pc # "start"
    /\ Len(doc) = 2
    /\ \E i, j, k \in 1..Len(origin) :
          /\ origin[i].line_num = 1
          /\ j < k
          /\ origin[j].line_num = 2
          /\ origin[k].line_num = 2
          /\ origin[j].kind = "markdown"
          /\ origin[k].kind = "bare"
          /\ origin[k].start < origin[j].start

\* What ends a bare URL: whitespace or a closing parenthesis.
EndsUrl(c) == c = " " \/ c = ")"

SchemeAt(line, p) == line[p] = Scheme /\ (p = 1 \/ line[p - 1] # "(")

\* A bare URL starts at p: the scheme, not after an opening parenthesis,
\* with at least one character of the URL after it, and not itself inside
\* a bare URL that starts further left.
BareUrlAt(line, p) ==
    /\ SchemeAt(line, p)
    /\ p < Len(line)
    /\ ~EndsUrl(line[p + 1])
    /\ ~\E q \in 1..(p - 1) :
          /\ SchemeAt(line, q)
          /\ \A r \in (q + 1)..p : ~EndsUrl(line[r])

\* The URL from p up to, and not including, the first whitespace or closing
\* parenthesis.
UrlFrom(line, p) ==
    LET ends == {e \in p..Len(line) : \A r \in (p + 1)..e : ~EndsUrl(line[r])}
    IN  SubSeq(line, p, CHOOSE e \in ends : \A f \in ends : f <= e)

\* C8: every bare URL of a line is emitted once, with the 1-indexed number
\* of its line, and runs from the scheme to the first whitespace or closing
\* parenthesis.
C8_BareUrlEmitted ==
    pc # "start" =>
        \A n \in 1..Len(doc) : \A p \in 1..Len(doc[n]) :
            BareUrlAt(doc[n], p) =>
                LET hits == {i \in 1..Len(origin) :
                                /\ origin[i].kind = "bare"
                                /\ origin[i].line_num = n
                                /\ origin[i].start = p}
                IN  /\ Cardinality(hits) = 1
                    /\ \A i \in hits : links[i] = <<n, UrlFrom(doc[n], p)>>

\* On the second line, a bare URL after another character, closed by a
\* parenthesis.
C8_Witness ==
    /\ pc # "start"
    /\ Len(doc) = 2
    /\ \E p \in 2..Len(doc[2]) :
          /\ BareUrlAt(doc[2], p)
          /\ p + 2 <= Len(doc[2])
          /\ doc[2][p + 2] = ")"
          /\ <<2, <<Scheme, doc[2][p + 1]>>>> \in {links[i] : i \in 1..Len(links)}

====
